---- MODULE Spec2Model ----
(***************************************************************************)
(* mighty_struct.h: relocatable records in one contiguous memory block.    *)
(*                                                                         *)
(* The model is byte-accurate.  Memory is one flat array of bytes; every   *)
(* uint32_t / int32_t field is stored as four little-endian bytes, every   *)
(* OffsetPtr is resolved as (address of the offset field) + (offset), and  *)
(* the allocator's arithmetic is done in the width the code uses.  Every   *)
(* value the model reaches is far below 2^31, so sums never wrap; the one  *)
(* subtraction that can wrap (capacity - used_space) is modelled as such.  *)
(***************************************************************************)
EXTENDS Integers, Sequences, FiniteSets, TLC

VARIABLES
  mem,      \* the bytes of the storage obtained so far: address -> 0..255
  live,     \* live[b]: block b has been constructed by InplaceNew / NewCopy
  regions,  \* regions[b]: the non-null regions Allocate has returned on b, in order
  last,     \* the last operation called: its name, arguments and return value
  track,    \* what the caller knows of A's list: the values appended so far
  ops       \* the number of operations called on the blocks so far

vars == <<mem, live, regions, last, track, ops>>

(***************************************************************************)
(* Bounds of the model.                                                    *)
(***************************************************************************)
\* operations called on the blocks after their construction
MaxOps == 4
\* free bytes (beyond the allocator header) of the largest block created
MaxFree == 36
\* longest list the callers ask for (append stops there, resize asks up to it)
MaxListLen == 3
\* longest vector / nested-record array / map created
MaxCount == 2

(***************************************************************************)
(* Sizes of the types, in bytes.                                           *)
(***************************************************************************)
NULL == 0
SizeofSize == 4          \* typedef uint32_t Size
SizeofOffset == 4        \* class Offset = int32_t
SizeofChar == 1
SizeofT == 4             \* element type of List<T> and Vector<T>: int32_t
SizeofWide == 16         \* a wider element type: struct Wide { int32_t v, pad[3]; }
SizeofAllocator == SizeofSize + SizeofSize          \* capacity, used_space
SizeofStruct == SizeofSize + SizeofOffset           \* struct_size, allocator
SizeofString == SizeofOffset                        \* data
SizeofList == SizeofSize + SizeofOffset + SizeofOffset   \* size_, value, next
SizeofVector == SizeofSize + SizeofOffset           \* size_, at
SizeofPair == SizeofT + SizeofT                     \* Pair<int32_t, int32_t>

(***************************************************************************)
(* The record the blocks hold:                                             *)
(*   struct Rec : Struct { String name; List<int32_t> list;                *)
(*                         Vector<int32_t> vec; };                         *)
(***************************************************************************)
OffName == SizeofStruct
OffList == OffName + SizeofString
OffVec == OffList + SizeofList
SizeofRec == OffVec + SizeofVector

(***************************************************************************)
(* A later version of the record, with fields added at the end:            *)
(*   struct RecV2 : Rec { String extra; Vector<int32_t> more; };           *)
(***************************************************************************)
OffExtra == SizeofRec
OffMore == OffExtra + SizeofString
SizeofRecV2 == OffMore + SizeofVector

(***************************************************************************)
(* The address space: a string literal "" in static storage, then three    *)
(* buffers, each part of the memory once it has been obtained.  Address 0  *)
(* is the null pointer.                                                    *)
(***************************************************************************)
Blocks == {"A", "B", "C"}
BufLen == SizeofRec + SizeofAllocator + MaxFree
LitEmpty == 8
BaseA == 16
Base(b) == IF b = "A" THEN BaseA
           ELSE IF b = "B" THEN BaseA + BufLen
           ELSE BaseA + 2 * BufLen
\* static storage: the addresses below the first buffer
Static == 1..(BaseA - 1)
\* the bytes of a buffer before anything is constructed in it (new char[n]
\* does not clear them)
Garbage == 85

\* the memory once the buffer of block b has been obtained
Buffer(m, b) ==
  IF Base(b) \in DOMAIN m THEN m
  ELSE [x \in DOMAIN m \cup (Base(b)..(Base(b) + BufLen - 1)) |->
          IF x \in DOMAIN m THEN m[x] ELSE Garbage]

(***************************************************************************)
(* Bytes and 32-bit fields.                                                *)
(***************************************************************************)
\* a uint32_t field
Rd32(m, a) == m[a] + 256 * m[a + 1] + 65536 * m[a + 2] + 16777216 * m[a + 3]

\* an int32_t field (two's complement)
RdS32(m, a) ==
  m[a] + 256 * m[a + 1] + 65536 * m[a + 2]
       + 16777216 * (IF m[a + 3] >= 128 THEN m[a + 3] - 256 ELSE m[a + 3])

\* store a 32-bit field; a negative v is stored in two's complement
Wr32(m, a, v) ==
  [m EXCEPT ![a] = v % 256,
            ![a + 1] = (v \div 256) % 256,
            ![a + 2] = (v \div 65536) % 256,
            ![a + 3] = (v \div 16777216) % 256]

\* std::memset(p, c, n)
RECURSIVE memset(_, _, _, _)
memset(m, p, c, n) ==
  IF n <= 0 THEN m ELSE memset([m EXCEPT ![p] = c], p + 1, c, n - 1)

\* std::memcpy(dst, src, n), the two ranges apart
RECURSIVE memcpy(_, _, _, _)
memcpy(m, dst, src, n) ==
  IF n <= 0 THEN m ELSE memcpy([m EXCEPT ![dst] = m[src]], dst + 1, src + 1, n - 1)

\* strncpy(p, str, size) with size = length + 1: the characters, then NUL
RECURSIVE strncpy(_, _, _)
strncpy(m, p, str) ==
  IF str = <<>> THEN [m EXCEPT ![p] = 0]
  ELSE strncpy([m EXCEPT ![p] = Head(str)], p + 1, Tail(str))

(***************************************************************************)
(* OffsetPtr<T, int32_t>.  `self` is the address of the offset_ field.     *)
(***************************************************************************)
OffsetPtr_get(m, self) ==
  LET offset_ == RdS32(m, self)
  IN  IF offset_ = 0 THEN NULL ELSE self + offset_

to_offset(self, ptr) == IF ptr # NULL THEN ptr - self ELSE 0

\* operator=(const T* ptr)
OffsetPtr_assign(m, self, ptr) == Wr32(m, self, to_offset(self, ptr))

\* mutant: copy-assignment that copies the stored offset
OffsetPtr_copy_raw(m, self, other) == Wr32(m, self, RdS32(m, other))

\* operator=(const OffsetPtr<T>& ptr): resolve the source, then rebase
OffsetPtr_copy(m, self, other) == OffsetPtr_assign(m, self, OffsetPtr_get(m, other))

(***************************************************************************)
(* A heap is the memory together with the journal of the regions the       *)
(* allocator has handed out while an operation runs.                       *)
(***************************************************************************)
Heap(m) == [mem |-> m, log |-> <<>>]

(***************************************************************************)
(* Struct header and Allocator header.                                     *)
(***************************************************************************)
struct_size(m, s) == Rd32(m, s)
allocator(m, s) == OffsetPtr_get(m, s + SizeofSize)
Allocator_capacity(m, a) == Rd32(m, a)
Allocator_used_space(m, a) == Rd32(m, a + SizeofSize)

capacity(m, s) ==
  struct_size(m, s) +
    (IF allocator(m, s) # NULL THEN Allocator_capacity(m, allocator(m, s)) ELSE 0)

\* mutant: the allocator header is not counted as used
used_space_without_header(m, s) ==
  struct_size(m, s) +
    (IF allocator(m, s) # NULL
     THEN Allocator_used_space(m, allocator(m, s)) - SizeofAllocator ELSE 0)

used_space(m, s) ==
  struct_size(m, s) +
    (IF allocator(m, s) # NULL THEN Allocator_used_space(m, allocator(m, s)) ELSE 0)

\* Allocator(size_t n) : capacity(n), used_space(sizeof(Allocator))
Allocator_ctor(m, a, n) ==
  Wr32(Wr32(m, a, n), a + SizeofSize, SizeofAllocator)

\* Struct::Init<S>(free_space)
Struct_Init(m, s, sizeofS, free_space) ==
  LET m1 == Wr32(m, s, sizeofS)
  IN  IF free_space # 0
      THEN LET addr == s + struct_size(m1, s)
           IN  OffsetPtr_assign(Allocator_ctor(m1, addr, free_space), s + SizeofSize, addr)
      ELSE OffsetPtr_assign(m1, s + SizeofSize, NULL)

\* size_t available_space = capacity - used_space;
\* if (required_space > available_space) ...
\* The subtraction is done in uint32_t: when used_space > capacity it wraps to
\* 2^32 - (used_space - capacity), which is above every request below 2^31.
NotEnough(required_space, cap, used) ==
  IF cap >= used THEN required_space > cap - used ELSE FALSE

\* mutant: Allocate without the memset
Allocator_Allocate_no_memset(h, a, sizeofT, count) ==
  IF count = 0 THEN [h |-> h, r |-> NULL]
  ELSE
    LET required_space == sizeofT * count
    IN  IF NotEnough(required_space, Allocator_capacity(h.mem, a),
                     Allocator_used_space(h.mem, a))
        THEN [h |-> h, r |-> NULL]
        ELSE
          LET ptr == a + Allocator_used_space(h.mem, a)
              m2 == Wr32(h.mem, a + SizeofSize,
                         Allocator_used_space(h.mem, a) + required_space)
          IN  [h |-> [mem |-> m2,
                      log |-> Append(h.log, [ptr |-> ptr, n |-> required_space])],
               r |-> ptr]

\* mutant: used_space = required_space where the code has +=
Allocator_Allocate_resets(h, a, sizeofT, count) ==
  IF count = 0 THEN [h |-> h, r |-> NULL]
  ELSE
    LET required_space == sizeofT * count
    IN  IF NotEnough(required_space, Allocator_capacity(h.mem, a),
                     Allocator_used_space(h.mem, a))
        THEN [h |-> h, r |-> NULL]
        ELSE
          LET ptr == a + Allocator_used_space(h.mem, a)
              m1 == memset(h.mem, ptr, 0, required_space)
              m2 == Wr32(m1, a + SizeofSize, required_space)
          IN  [h |-> [mem |-> m2,
                      log |-> Append(h.log, [ptr |-> ptr, n |-> required_space])],
               r |-> ptr]

\* Allocator::Allocate<T>(count); h is a heap, the result a heap and the pointer
Allocator_Allocate(h, a, sizeofT, count) ==
  IF count = 0 THEN [h |-> h, r |-> NULL]
  ELSE
    LET required_space == sizeofT * count
    IN  IF NotEnough(required_space, Allocator_capacity(h.mem, a),
                     Allocator_used_space(h.mem, a))
        THEN [h |-> h, r |-> NULL]
        ELSE
          LET ptr == a + Allocator_used_space(h.mem, a)
              m1 == memset(h.mem, ptr, 0, required_space)
              m2 == Wr32(m1, a + SizeofSize,
                         Allocator_used_space(m1, a) + required_space)
          IN  [h |-> [mem |-> m2,
                      log |-> Append(h.log, [ptr |-> ptr, n |-> required_space])],
               r |-> ptr]

\* mutant: a member that starts exactly at struct_size counts as present
HasMember_inclusive(m, s, member) == struct_size(m, s) >= member - s

\* Struct::HasMember(member), member the address of the field
HasMember(m, s, member) == struct_size(m, s) > member - s

\* Struct::Allocate<T>(count)
Struct_Allocate(h, s, sizeofT, count) ==
  IF allocator(h.mem, s) # NULL
  THEN Allocator_Allocate(h, allocator(h.mem, s), sizeofT, count)
  ELSE [h |-> h, r |-> NULL]

(***************************************************************************)
(* Reading typed values.  Dereferencing a null pointer is undefined; the   *)
(* readers report it instead of inventing a value.                         *)
(***************************************************************************)
NullDeref == "NullDeref"
Wild == "wild"
OutOfRange == "out_of_range"

\* [p, p + n) is storage of the program
InMem(m, p, n) == \A x \in p..(p + n - 1) : x \in DOMAIN m

Deref32(m, p) ==
  IF p = NULL THEN NullDeref
  ELSE IF ~InMem(m, p, SizeofT) THEN Wild
  ELSE RdS32(m, p)

RECURSIVE strlen(_, _)
strlen(m, p) ==
  IF ~InMem(m, p, 1) THEN 0
  ELSE IF m[p] = 0 THEN 0 ELSE 1 + strlen(m, p + 1)

\* the characters of the NUL-terminated string at p
chars(m, p) == [i \in 1..strlen(m, p) |-> m[p + i - 1]]

\* strcmp(p, q) == 0
strcmp_eq(m, p, q) == chars(m, p) = chars(m, q)

(***************************************************************************)
(* String.  `self` is the address of the String (of its data field).       *)
(***************************************************************************)
String_assign(m, self, str) == OffsetPtr_assign(m, self, str)

\* bool operator== (const char* s) const
String_eq(m, self, s) ==
  \/ OffsetPtr_get(m, self) = s
  \/ /\ OffsetPtr_get(m, self) # NULL
     /\ s # NULL
     /\ strcmp_eq(m, OffsetPtr_get(m, self), s)

\* bool operator== (const String& o) const { return *this == o.data; }
String_eqString(m, self, o) == String_eq(m, self, OffsetPtr_get(m, o))

String_ne(m, self, s) == ~String_eq(m, self, s)

String_c_str(m, self) ==
  IF OffsetPtr_get(m, self) # NULL THEN OffsetPtr_get(m, self) ELSE LitEmpty

String_length(m, self) ==
  IF OffsetPtr_get(m, self) # NULL THEN strlen(m, String_c_str(m, self)) ELSE 0

String_empty(m, self) ==
  OffsetPtr_get(m, self) = NULL \/ m[OffsetPtr_get(m, self)] = 0

String_clear(m, self) == OffsetPtr_assign(m, self, NULL)

\* Struct::CreateString(str)
CreateString(h, s, str) ==
  LET size == Len(str) + 1
      a == Struct_Allocate(h, s, SizeofChar, size)
  IN  IF a.r # NULL
      THEN [h |-> [a.h EXCEPT !.mem = strncpy(a.h.mem, a.r, str)], r |-> a.r]
      ELSE a

(***************************************************************************)
(* List<T>.  `self` is the address of a node: size_, value, next.          *)
(***************************************************************************)
List_size(m, self) == Rd32(m, self)
List_value(m, self) == OffsetPtr_get(m, self + SizeofSize)
List_next(m, self) == OffsetPtr_get(m, self + SizeofSize + SizeofOffset)
List_empty(m, self) == List_size(m, self) = 0

\* List<T>& operator= (const content_type& a)
List_assign(m, self, a) ==
  LET m1 == Wr32(m, self, a.size)
      m2 == OffsetPtr_assign(m1, self + SizeofSize, a.value)
  IN  OffsetPtr_assign(m2, self + SizeofSize + SizeofOffset, a.next)

\* T& operator[] (size_t index)
RECURSIVE List_index(_, _, _)
List_index(m, self, index) ==
  IF self = NULL THEN NullDeref
  ELSE IF ~InMem(m, self, SizeofList) THEN Wild
  ELSE IF index >= List_size(m, self) THEN OutOfRange
  ELSE IF index = 0 THEN Deref32(m, List_value(m, self))
  ELSE List_index(m, List_next(m, self), index - 1)

\* for (i = begin(); i != end(); ++i) yield *i
RECURSIVE List_walk(_, _)
List_walk(m, ptr) ==
  IF ptr = NULL THEN <<>>
  ELSE IF ~InMem(m, ptr, SizeofList) THEN <<Wild>>
  ELSE <<Deref32(m, List_value(m, ptr))>> \o List_walk(m, List_next(m, ptr))

List_iterate(m, self) ==
  IF List_empty(m, self) THEN <<>> ELSE List_walk(m, self)

\* void clear()
List_clear(m, self) ==
  LET m1 == Wr32(m, self, 0)
      m2 == OffsetPtr_assign(m1, self + SizeofSize, NULL)
  IN  OffsetPtr_assign(m2, self + SizeofSize + SizeofOffset, NULL)

\* mutant: append that forgets size_ = next->size_ + 1
RECURSIVE List_append_stale_size(_, _, _, _)
List_append_stale_size(h, self, s, c) ==
  IF s = NULL THEN [h |-> h, r |-> FALSE]
  ELSE IF List_empty(h.mem, self)
  THEN [h |-> [h EXCEPT !.mem = List_assign(h.mem, self, c)], r |-> TRUE]
  ELSE
    LET nextAddr == self + SizeofSize + SizeofOffset
        a == IF List_next(h.mem, self) = NULL
             THEN Struct_Allocate(h, s, SizeofList, 1)
             ELSE [h |-> h, r |-> List_next(h.mem, self)]
        h1 == IF List_next(h.mem, self) = NULL
              THEN [a.h EXCEPT !.mem = OffsetPtr_assign(a.h.mem, nextAddr, a.r)]
              ELSE h
    IN  IF List_next(h1.mem, self) = NULL
        THEN [h |-> h1, r |-> FALSE]
        ELSE List_append_stale_size(h1, List_next(h1.mem, self), s, c)

\* mutant: append that counts the new element before it has a node for it
RECURSIVE List_append_counts_first(_, _, _, _)
List_append_counts_first(h, self, s, c) ==
  IF s = NULL THEN [h |-> h, r |-> FALSE]
  ELSE IF List_empty(h.mem, self)
  THEN [h |-> [h EXCEPT !.mem = List_assign(h.mem, self, c)], r |-> TRUE]
  ELSE
    LET nextAddr == self + SizeofSize + SizeofOffset
        h0 == [h EXCEPT !.mem = Wr32(h.mem, self, List_size(h.mem, self) + c.size)]
        a == IF List_next(h0.mem, self) = NULL
             THEN Struct_Allocate(h0, s, SizeofList, 1)
             ELSE [h |-> h0, r |-> List_next(h0.mem, self)]
        h1 == IF List_next(h0.mem, self) = NULL
              THEN [a.h EXCEPT !.mem = OffsetPtr_assign(a.h.mem, nextAddr, a.r)]
              ELSE h0
    IN  IF List_next(h1.mem, self) = NULL
        THEN [h |-> h1, r |-> FALSE]
        ELSE
          LET sub == List_append_counts_first(h1, List_next(h1.mem, self), s, c)
          IN  [h |-> sub.h, r |-> sub.r]

\* bool List<T>::append(Struct* s, const content_type& c)
RECURSIVE List_append(_, _, _, _)
List_append(h, self, s, c) ==
  IF s = NULL THEN [h |-> h, r |-> FALSE]
  ELSE IF List_empty(h.mem, self)
  THEN [h |-> [h EXCEPT !.mem = List_assign(h.mem, self, c)], r |-> TRUE]
  ELSE
    LET nextAddr == self + SizeofSize + SizeofOffset
        a == IF List_next(h.mem, self) = NULL
             THEN Struct_Allocate(h, s, SizeofList, 1)
             ELSE [h |-> h, r |-> List_next(h.mem, self)]
        h1 == IF List_next(h.mem, self) = NULL
              THEN [a.h EXCEPT !.mem = OffsetPtr_assign(a.h.mem, nextAddr, a.r)]
              ELSE h
    IN  IF List_next(h1.mem, self) = NULL
        THEN [h |-> h1, r |-> FALSE]
        ELSE
          LET sub == List_append(h1, List_next(h1.mem, self), s, c)
          IN  IF ~sub.r
              THEN [h |-> sub.h, r |-> FALSE]
              ELSE [h |-> [sub.h EXCEPT !.mem =
                             Wr32(sub.h.mem, self,
                                  List_size(sub.h.mem, List_next(sub.h.mem, self)) + 1)],
                    r |-> TRUE]

\* bool List<T>::append(Struct* s, V* v)
List_appendValue(h, self, s, v) ==
  IF s = NULL \/ v = NULL THEN [h |-> h, r |-> FALSE]
  ELSE List_append(h, self, s, [size |-> 1, value |-> v, next |-> NULL])

\* Struct::CreateList<T>(size): the descriptor x, in the heap after the call
RECURSIVE CreateList(_, _, _, _)
CreateList(h, s, sizeofT, size) ==
  LET x0 == [size |-> 0, value |-> NULL, next |-> NULL]
  IN  IF size > 0
      THEN
        LET v == Struct_Allocate(h, s, sizeofT, 1)
            x1 == [x0 EXCEPT !.value = v.r]
        IN  IF v.r = NULL THEN [h |-> v.h, r |-> x1]
            ELSE IF size > 1
            THEN
              LET n == Struct_Allocate(v.h, s, SizeofList, 1)
                  x2 == [x1 EXCEPT !.next = n.r]
              IN  IF n.r = NULL THEN [h |-> n.h, r |-> x2]
                  ELSE
                    LET sub == CreateList(n.h, s, sizeofT, size - 1)
                        h3 == [sub.h EXCEPT !.mem = List_assign(sub.h.mem, n.r, sub.r)]
                    IN  IF List_empty(h3.mem, n.r)
                        THEN [h |-> h3, r |-> x2]
                        ELSE [h |-> h3, r |-> [x2 EXCEPT !.size = size]]
            ELSE [h |-> v.h, r |-> [x1 EXCEPT !.size = size]]
      ELSE [h |-> h, r |-> x0]

\* mutant: resize that truncates to one element without cutting the chain
RECURSIVE List_resize_keeps_next(_, _, _, _, _)
List_resize_keeps_next(h, self, s, sizeofT, new_size) ==
  IF new_size = List_size(h.mem, self) THEN [h |-> h, r |-> TRUE]
  ELSE IF new_size > List_size(h.mem, self)
  THEN LET x == CreateList(h, s, sizeofT, new_size - List_size(h.mem, self))
       IN  List_append(x.h, self, s, x.r)
  ELSE IF new_size = 0
  THEN [h |-> [h EXCEPT !.mem = List_clear(h.mem, self)], r |-> TRUE]
  ELSE
    LET sub == IF new_size = 1
               THEN [h |-> h, r |-> TRUE]
               ELSE List_resize_keeps_next(h, List_next(h.mem, self), s, sizeofT,
                                           new_size - 1)
    IN  IF ~sub.r
        THEN [h |-> sub.h, r |-> FALSE]
        ELSE [h |-> [sub.h EXCEPT !.mem = Wr32(sub.h.mem, self, new_size)],
              r |-> TRUE]

\* bool List<T>::resize(Struct* s, size_t new_size)
RECURSIVE List_resize(_, _, _, _, _)
List_resize(h, self, s, sizeofT, new_size) ==
  IF new_size = List_size(h.mem, self) THEN [h |-> h, r |-> TRUE]
  ELSE IF new_size > List_size(h.mem, self)
  THEN LET x == CreateList(h, s, sizeofT, new_size - List_size(h.mem, self))
       IN  List_append(x.h, self, s, x.r)
  ELSE IF new_size = 0
  THEN [h |-> [h EXCEPT !.mem = List_clear(h.mem, self)], r |-> TRUE]
  ELSE
    LET sub == IF new_size = 1
               THEN [h |-> [h EXCEPT !.mem =
                              OffsetPtr_assign(h.mem, self + SizeofSize + SizeofOffset, NULL)],
                     r |-> TRUE]
               ELSE List_resize(h, List_next(h.mem, self), s, sizeofT, new_size - 1)
    IN  IF ~sub.r
        THEN [h |-> sub.h, r |-> FALSE]
        ELSE [h |-> [sub.h EXCEPT !.mem = Wr32(sub.h.mem, self, new_size)],
              r |-> TRUE]

(***************************************************************************)
(* Vector<T> and Map<K, V>.  `self` is the address of size_, at.           *)
(***************************************************************************)
Vector_size(m, self) == Rd32(m, self)
Vector_at(m, self) == OffsetPtr_get(m, self + SizeofSize)

\* Vector<T>& operator= (const content_type& a)
Vector_assign(m, self, a) ==
  OffsetPtr_assign(Wr32(m, self, a.size), self + SizeofSize, a.at)

\* T& operator[] (size_t index)
Vector_index(m, self, index) ==
  IF index >= Vector_size(m, self) THEN OutOfRange
  ELSE IF Vector_at(m, self) = NULL THEN NullDeref
  ELSE IF ~InMem(m, Vector_at(m, self) + index * SizeofT, SizeofT) THEN Wild
  ELSE RdS32(m, Vector_at(m, self) + index * SizeofT)

Vector_clear(m, self) ==
  OffsetPtr_assign(Wr32(m, self, 0), self + SizeofSize, NULL)

\* Struct::CreateVector<T>(size)
CreateVector(h, s, sizeofT, size) ==
  LET a == Struct_Allocate(h, s, sizeofT, size)
  IN  [h |-> a.h, r |-> [at |-> a.r, size |-> IF a.r # NULL THEN size ELSE 0]]

\* Struct::CreateMap<K, V>(size)
CreateMap(h, s, size) == CreateVector(h, s, SizeofPair, size)

\* Struct::Create<T>(count) with T = Struct: count nested headers, each Init<T>()
RECURSIVE InitEach(_, _, _, _)
InitEach(m, a, i, count) ==
  IF i >= count THEN m
  ELSE InitEach(Struct_Init(m, a + i * SizeofStruct, SizeofStruct, 0), a, i + 1, count)

Create(h, s, count) ==
  LET a == Struct_Allocate(h, s, SizeofStruct, count)
  IN  IF a.r # NULL
      THEN [h |-> [a.h EXCEPT !.mem = InitEach(a.h.mem, a.r, 0, count)], r |-> a.r]
      ELSE a

(***************************************************************************)
(* Block lifecycle.                                                        *)
(***************************************************************************)
\* new (buffer) S: the constructors of the members clear every field after
\* struct_size (OffsetPtr() : offset_(0), List() : size_(0), Vector() : size_(0));
\* struct_size itself is left to Init
S_ctor(m, buffer, sizeofS) == memset(m, buffer + SizeofSize, 0, sizeofS - SizeofSize)

\* Struct::InplaceNew<S>(buffer, capacity); capacity - sizeof(S) is a size_t
InplaceNew(m, buffer, sizeofS, cap) ==
  Struct_Init(S_ctor(m, buffer, sizeofS), buffer, sizeofS,
              cap - sizeofS)

\* mutant: Copy that does not restore the destination's capacity
Copy_keeps_source_capacity(m, this, src) ==
  IF src = NULL \/ capacity(m, this) < used_space(m, src)
  THEN [m |-> m, r |-> FALSE]
  ELSE [m |-> memcpy(m, this, src, used_space(m, src)), r |-> TRUE]

\* mutant: Copy that asks for room for the source's capacity, not its used space
Copy_needs_source_capacity(m, this, src) ==
  IF src = NULL \/ capacity(m, this) < capacity(m, src)
  THEN [m |-> m, r |-> FALSE]
  ELSE
    LET original_capacity == capacity(m, this)
        m1 == memcpy(m, this, src, used_space(m, src))
    IN  IF allocator(m1, this) # NULL
        THEN [m |-> Wr32(m1, allocator(m1, this),
                         original_capacity - struct_size(m1, this)),
              r |-> TRUE]
        ELSE [m |-> m1, r |-> TRUE]

\* bool Struct::Copy(const Struct* src)
Copy(m, this, src) ==
  IF src = NULL \/ capacity(m, this) < used_space(m, src)
  THEN [m |-> m, r |-> FALSE]
  ELSE
    LET original_capacity == capacity(m, this)
        m1 == memcpy(m, this, src, used_space(m, src))
    IN  IF allocator(m1, this) # NULL
        THEN [m |-> Wr32(m1, allocator(m1, this),
                         original_capacity - struct_size(m1, this)),
              r |-> TRUE]
        ELSE [m |-> m1, r |-> TRUE]

\* Struct::NewCopy<S>(src), the new block in the buffer `fresh` that New obtains
NewCopy(m, src, sizeofS, fresh) ==
  IF src = NULL THEN [m |-> m, r |-> NULL]
  ELSE LET m1 == InplaceNew(m, fresh, sizeofS, used_space(m, src))
       IN  [m |-> Copy(m1, fresh, src).m, r |-> fresh]

(***************************************************************************)
(* The state machine: callers of the API on blocks A and B; C is the       *)
(* buffer that NewCopy obtains and that a relocation copies into.          *)
(***************************************************************************)
Vals == {1, 2}
Strs == {<<>>, <<104>>, <<104, 105>>}
\* capacities: no free space; less than an Allocator header; room for one T;
\* room for T, node, T; the largest
Caps == {SizeofRec, SizeofRec + SizeofT, SizeofRec + SizeofAllocator + SizeofT,
         SizeofRec + SizeofAllocator + SizeofT + SizeofList + SizeofT,
         SizeofRec + SizeofAllocator + MaxFree}

NoOp == [op |-> "none", b |-> "A", n |-> 0, ptr |-> NULL, ok |-> TRUE]
Called(op, b, n, ptr, ok) == [op |-> op, b |-> b, n |-> n, ptr |-> ptr, ok |-> ok]

\* The model's address space is finite: an operation that may reserve `need`
\* bytes runs only where the reservation stays inside the buffer.  A block whose
\* allocator is within its capacity never leaves the buffer.
Fits(b, need) ==
  \/ used_space(mem, Base(b)) <= capacity(mem, Base(b))
  \/ used_space(mem, Base(b)) + need <= BufLen

Step == ops < MaxOps /\ ops' = ops + 1

Logged(b, log) == [regions EXCEPT ![b] = regions[b] \o log]

Init ==
  /\ mem = [x \in Static |-> 0]
  /\ live = [b \in Blocks |-> FALSE]
  /\ regions = [b \in Blocks |-> <<>>]
  /\ last = NoOp
  /\ track = [pure |-> TRUE, vals |-> <<>>]
  /\ ops = 0

\* Struct::InplaceNew<Rec>(buffer of b, cap)
DoInplaceNew(b, cap) ==
  /\ ~live[b]
  /\ mem' = InplaceNew(Buffer(mem, b), Base(b), SizeofRec, cap)
  /\ live' = [live EXCEPT ![b] = TRUE]
  /\ last' = Called("InplaceNew", b, cap, Base(b), TRUE)
  /\ UNCHANGED <<regions, track, ops>>

\* Struct::InplaceNew<RecV2>(buffer of b, cap)
DoInplaceNewV2(b, cap) ==
  /\ ~live[b]
  /\ mem' = InplaceNew(Buffer(mem, b), Base(b), SizeofRecV2, cap)
  /\ live' = [live EXCEPT ![b] = TRUE]
  /\ last' = Called("InplaceNewV2", b, cap, Base(b), TRUE)
  /\ UNCHANGED <<regions, track, ops>>

\* s->Allocate<int32_t>(count)
DoAllocate(b, count) ==
  /\ live[b]
  /\ Step
  /\ Fits(b, SizeofT * count)
  /\ LET a == Struct_Allocate(Heap(mem), Base(b), SizeofT, count)
     IN  /\ mem' = a.h.mem
         /\ regions' = Logged(b, a.h.log)
         /\ last' = Called("Allocate", b, SizeofT * count, a.r, a.r # NULL)
  /\ UNCHANGED <<live, track>>

\* s->Create<Struct>(count)
DoCreate(b, count) ==
  /\ live[b]
  /\ Step
  /\ Fits(b, SizeofStruct * count)
  /\ LET a == Create(Heap(mem), Base(b), count)
     IN  /\ mem' = a.h.mem
         /\ regions' = Logged(b, a.h.log)
         /\ last' = Called("Create", b, SizeofStruct * count, a.r, a.r # NULL)
  /\ UNCHANGED <<live, track>>

\* s->CreateMap<int32_t, int32_t>(size)
DoCreateMap(b, size) ==
  /\ live[b]
  /\ Step
  /\ Fits(b, SizeofPair * size)
  /\ LET a == CreateMap(Heap(mem), Base(b), size)
     IN  /\ mem' = a.h.mem
         /\ regions' = Logged(b, a.h.log)
         /\ last' = Called("CreateMap", b, SizeofPair * size, a.r.at, a.r.at # NULL)
  /\ UNCHANGED <<live, track>>

\* s->name = s->CreateString(str)
DoSetName(b, str) ==
  /\ live[b]
  /\ Step
  /\ Fits(b, Len(str) + 1)
  /\ LET a == CreateString(Heap(mem), Base(b), str)
     IN  /\ mem' = String_assign(a.h.mem, Base(b) + OffName, a.r)
         /\ regions' = Logged(b, a.h.log)
         /\ last' = Called("CreateString", b, Len(str) + 1, a.r, a.r # NULL)
  /\ UNCHANGED <<live, track>>

\* s->name.clear()
DoClearName(b) ==
  /\ live[b]
  /\ Step
  /\ mem' = String_clear(mem, Base(b) + OffName)
  /\ last' = Called("String_clear", b, 0, NULL, TRUE)
  /\ UNCHANGED <<live, regions, track>>

\* T* p = s->Allocate<T>(); if (p) p->v = v; s->list.append(s, p)
DoAppend(b, sizeofT, v) ==
  /\ live[b]
  /\ Step
  /\ List_size(mem, Base(b) + OffList) < MaxListLen
  /\ Fits(b, sizeofT + SizeofList)
  /\ LET p == Struct_Allocate(Heap(mem), Base(b), sizeofT, 1)
         h1 == IF p.r # NULL THEN [p.h EXCEPT !.mem = Wr32(p.h.mem, p.r, v)] ELSE p.h
         a == List_appendValue(h1, Base(b) + OffList, Base(b), p.r)
     IN  /\ mem' = a.h.mem
         /\ regions' = Logged(b, a.h.log)
         /\ last' = Called("append", b, v, p.r, a.r)
         /\ track' = IF b # "A" THEN track
                     ELSE IF a.r /\ track.pure
                     THEN [track EXCEPT !.vals = Append(track.vals, v)]
                     ELSE [pure |-> FALSE, vals |-> <<>>]
  /\ UNCHANGED live

\* s->list.resize(s, new_size)
DoResize(b, sizeofT, new_size) ==
  /\ live[b]
  /\ Step
  /\ Fits(b, (sizeofT + SizeofList) * new_size)
  /\ LET a == List_resize(Heap(mem), Base(b) + OffList, Base(b), sizeofT, new_size)
     IN  /\ mem' = a.h.mem
         /\ regions' = Logged(b, a.h.log)
         /\ last' = Called("resize", b, new_size, NULL, a.r)
         /\ track' = IF b = "A" THEN [pure |-> FALSE, vals |-> <<>>] ELSE track
  /\ UNCHANGED live

\* n = s->list.size(); T* p = s->Allocate<T>(); if (p) p->v = v;
\* if (s->list.append(s, p)) s->list.resize(s, n)
DoAppendThenResize(b, sizeofT, v) ==
  /\ live[b]
  /\ Step
  /\ List_size(mem, Base(b) + OffList) < MaxListLen
  /\ Fits(b, sizeofT + SizeofList)
  /\ LET n == List_size(mem, Base(b) + OffList)
         p == Struct_Allocate(Heap(mem), Base(b), sizeofT, 1)
         h1 == IF p.r # NULL THEN [p.h EXCEPT !.mem = Wr32(p.h.mem, p.r, v)] ELSE p.h
         a == List_appendValue(h1, Base(b) + OffList, Base(b), p.r)
         r == IF a.r
              THEN List_resize(a.h, Base(b) + OffList, Base(b), sizeofT, n)
              ELSE [h |-> a.h, r |-> FALSE]
     IN  /\ mem' = r.h.mem
         /\ regions' = Logged(b, r.h.log)
         /\ last' = IF a.r THEN Called("append_resize", b, n, p.r, r.r)
                         ELSE Called("append", b, v, p.r, FALSE)
  /\ track' = IF b = "A" THEN [pure |-> FALSE, vals |-> <<>>] ELSE track
  /\ UNCHANGED live

\* s->list.clear()
DoClearList(b) ==
  /\ live[b]
  /\ Step
  /\ mem' = List_clear(mem, Base(b) + OffList)
  /\ last' = Called("List_clear", b, 0, NULL, TRUE)
  /\ track' = IF b = "A" THEN [pure |-> FALSE, vals |-> <<>>] ELSE track
  /\ UNCHANGED <<live, regions>>

\* s->field = p, field a String of the record and p a const char*
\* (String::operator=(const char*), which is OffsetPtr::operator=(const T*))
DoPoint(b, field, p) ==
  /\ live[b]
  /\ Step
  /\ mem' = String_assign(mem, Base(b) + field, p)
  /\ last' = Called("ptr_assign", b, field, p, TRUE)
  /\ UNCHANGED <<live, regions, track>>

\* s->dst = s->src, both Strings of the record: the implicit copy-assignment
\* of String, which is OffsetPtr::operator=(const OffsetPtr<T>&)
DoCopyPtr(b, dst, src) ==
  /\ live[b]
  /\ Step
  /\ dst # src
  /\ mem' = OffsetPtr_copy(mem, Base(b) + dst, Base(b) + src)
  /\ last' = Called("ptr_copy", b, dst, Base(b) + src, TRUE)
  /\ UNCHANGED <<live, regions, track>>

\* s->vec = s->CreateVector<int32_t>(size); then vec[i] = v + i for each i
RECURSIVE Fill(_, _, _, _, _)
Fill(m, at, i, size, v) ==
  IF i >= size THEN m
  ELSE Fill(Wr32(m, at + i * SizeofT, v + i), at, i + 1, size, v)

DoSetVec(b, size, v) ==
  /\ live[b]
  /\ Step
  /\ Fits(b, SizeofT * size)
  /\ LET a == CreateVector(Heap(mem), Base(b), SizeofT, size)
         m1 == Vector_assign(a.h.mem, Base(b) + OffVec, a.r)
     IN  /\ mem' = Fill(m1, a.r.at, 0, a.r.size, v)
         /\ regions' = Logged(b, a.h.log)
         /\ last' = Called("CreateVector", b, SizeofT * size, a.r.at, a.r.at # NULL)
  /\ UNCHANGED <<live, track>>

\* s->vec.clear()
DoClearVec(b) ==
  /\ live[b]
  /\ Step
  /\ mem' = Vector_clear(mem, Base(b) + OffVec)
  /\ last' = Called("Vector_clear", b, 0, NULL, TRUE)
  /\ UNCHANGED <<live, regions, track>>

\* dst->Copy(src), src a live block or a null pointer
DoCopy(dst, src) ==
  /\ live[dst]
  /\ Step
  /\ dst # src
  /\ src # "null" => live[src]
  /\ LET c == Copy(mem, Base(dst), IF src = "null" THEN NULL ELSE Base(src))
     IN  /\ mem' = c.m
         /\ last' = Called("Copy", dst, IF src = "null" THEN NULL ELSE Base(src), NULL, c.r)
  /\ track' = IF dst = "A" THEN [pure |-> FALSE, vals |-> <<>>] ELSE track
  /\ UNCHANGED <<live, regions>>

\* Struct::NewCopy<Rec>(src): the copy is built in buffer C
DoNewCopy(src) ==
  /\ live[src]
  /\ Step
  /\ used_space(mem, Base(src)) <= BufLen
  /\ LET c == NewCopy(Buffer(mem, "C"), Base(src), SizeofRec, Base("C"))
     IN  /\ mem' = c.m
         /\ last' = Called("NewCopy", src, Base(src), c.r, c.r # NULL)
  /\ live' = [live EXCEPT !["C"] = TRUE]
  /\ regions' = [regions EXCEPT !["C"] = <<>>]
  /\ UNCHANGED track

\* Struct::NewCopy<RecV2>(src) by a reader that knows the later layout.  The
\* buffer New obtains has src->used_space() bytes; new (buffer) RecV2 is
\* defined only where the buffer holds a RecV2.
DoNewCopyV2(src) ==
  /\ live[src]
  /\ Step
  /\ used_space(mem, Base(src)) <= BufLen
  /\ used_space(mem, Base(src)) >= SizeofRecV2
  /\ LET c == NewCopy(Buffer(mem, "C"), Base(src), SizeofRecV2, Base("C"))
     IN  /\ mem' = c.m
         /\ last' = Called("NewCopyV2", src, Base(src), c.r, c.r # NULL)
  /\ live' = [live EXCEPT !["C"] = TRUE]
  /\ regions' = [regions EXCEPT !["C"] = <<>>]
  /\ UNCHANGED track

\* memcpy(buffer C, src, src->used_space()): the block relocated byte by byte
DoRelocate(src) ==
  /\ live[src]
  /\ Step
  /\ used_space(mem, Base(src)) <= BufLen
  /\ mem' = memcpy(Buffer(mem, "C"), Base("C"), Base(src), used_space(mem, Base(src)))
  /\ last' = Called("Relocate", src, Base(src), Base("C"), TRUE)
  /\ live' = [live EXCEPT !["C"] = TRUE]
  /\ regions' = [regions EXCEPT !["C"] = <<>>]
  /\ UNCHANGED track

(***************************************************************************)
(* Spec: one block holding a string, a list and a vector, and its          *)
(* relocation by byte copy.                                                *)
(***************************************************************************)
Next ==
  \/ \E cap \in Caps : DoInplaceNew("A", cap)
  \/ \E str \in {<<>>, <<104, 105>>} : DoSetName("A", str)
  \/ \E v \in Vals : DoAppend("A", SizeofT, v)
  \/ \E n \in {0, MaxListLen} : DoResize("A", SizeofT, n)
  \/ DoSetVec("A", MaxCount, 7)
  \/ DoRelocate("A")

Spec == Init /\ [][Next]_vars

(***************************************************************************)
(* SpecAlloc: the allocator under every operation that reserves bytes.     *)
(***************************************************************************)
NextAlloc ==
  \/ \E cap \in Caps : DoInplaceNew("A", cap)
  \/ \E count \in 0..MaxCount : DoAllocate("A", count)
  \/ DoCreate("A", 1)
  \/ DoCreateMap("A", 1)
  \/ DoSetName("A", <<104, 105>>)
  \/ DoSetVec("A", MaxCount, 7)
  \/ DoAppend("A", SizeofT, 1)
  \/ DoResize("A", SizeofT, MaxListLen)

SpecAlloc == Init /\ [][NextAlloc]_vars

(***************************************************************************)
(* SpecList: the list field of one block.                                  *)
(***************************************************************************)
NextList ==
  \/ \E cap \in Caps : DoInplaceNew("A", cap)
  \/ \E v \in Vals : DoAppend("A", SizeofT, v)
  \/ \E n \in 0..MaxListLen : DoResize("A", SizeofT, n)
  \/ DoAppendThenResize("A", SizeofT, 2)
  \/ DoClearList("A")

SpecList == Init /\ [][NextList]_vars

(***************************************************************************)
(* SpecWide: the list field of a record whose elements are wider than a    *)
(* list node (the record has the same layout: a List<T> is three words     *)
(* whatever T is).                                                         *)
(***************************************************************************)
\* capacities: room for one element and one node; the largest
CapsWide == {SizeofRec + SizeofAllocator + SizeofWide + SizeofList,
             SizeofRec + SizeofAllocator + MaxFree}

NextWide ==
  \/ \E cap \in CapsWide : DoInplaceNew("A", cap)
  \/ \E v \in Vals : DoAppend("A", SizeofWide, v)
  \/ \E n \in 0..MaxListLen : DoResize("A", SizeofWide, n)
  \/ DoAppendThenResize("A", SizeofWide, 2)
  \/ DoClearList("A")

SpecWide == Init /\ [][NextWide]_vars

(***************************************************************************)
(* SpecString: the String fields of two blocks.                            *)
(***************************************************************************)
NextString ==
  \/ \E b \in {"A", "B"} : DoInplaceNew(b, SizeofRec + SizeofAllocator + MaxFree)
  \/ \E b \in {"A", "B"}, str \in Strs : DoSetName(b, str)
  \/ \E b \in {"A", "B"} : DoClearName(b)

SpecString == Init /\ [][NextString]_vars

(***************************************************************************)
(* SpecCopy: Copy between two blocks and NewCopy of either.                *)
(***************************************************************************)
CapsA == {SizeofRec, SizeofRec + SizeofT, SizeofRec + SizeofAllocator + SizeofT,
          SizeofRec + SizeofAllocator + MaxFree}
CapsB == {SizeofRec, SizeofRec + SizeofAllocator + SizeofT,
          SizeofRec + SizeofAllocator + MaxFree}

NextCopy ==
  \/ \E cap \in CapsA : DoInplaceNew("A", cap)
  \/ \E cap \in CapsB : DoInplaceNew("B", cap)
  \/ DoSetName("A", <<104, 105>>)
  \/ DoAppend("A", SizeofT, 1)
  \/ DoSetVec("A", MaxCount, 7)
  \/ DoSetName("B", <<104>>)
  \/ DoCopy("A", "B")
  \/ DoCopy("B", "A")
  \/ DoCopy("A", "null")
  \/ DoNewCopy("A")
  \/ DoAllocate("C", 1)

SpecCopy == Init /\ [][NextCopy]_vars

(***************************************************************************)
(* SpecLayout: a block written as Rec (in A) and read through RecV2: in    *)
(* place, as a NewCopy, and copied into a block constructed as RecV2 (B).  *)
(***************************************************************************)
CapsV2 == {SizeofRecV2, SizeofRecV2 + SizeofAllocator + SizeofT,
           SizeofRec + SizeofAllocator + MaxFree}

NextLayout ==
  \/ \E cap \in CapsA : DoInplaceNew("A", cap)
  \/ \E cap \in CapsV2 : DoInplaceNewV2("B", cap)
  \/ DoSetName("A", <<104, 105>>)
  \/ DoAppend("A", SizeofT, 1)
  \/ DoSetVec("A", MaxCount, 7)
  \/ DoCopy("B", "A")
  \/ DoNewCopy("A")
  \/ DoNewCopyV2("A")

SpecLayout == Init /\ [][NextLayout]_vars

(***************************************************************************)
(* SpecPtr: the two String fields of a RecV2 block, pointed at places of   *)
(* the block and assigned to each other.                                   *)
(***************************************************************************)
PtrFields == {OffName, OffExtra}
\* where a const char* may point: the block's first byte, the storage of the
\* two Strings, the first byte after the allocator header
PtrTargets == {0, OffName, OffExtra, SizeofRecV2 + SizeofAllocator}

NextPtr ==
  \/ DoInplaceNewV2("A", SizeofRec + SizeofAllocator + MaxFree)
  \/ DoSetName("A", <<104, 105>>)
  \/ \E f \in PtrFields : DoPoint("A", f, NULL)
  \/ \E f \in PtrFields, t \in PtrTargets : DoPoint("A", f, Base("A") + t)
  \/ \E f \in PtrFields, g \in PtrFields : DoCopyPtr("A", f, g)

SpecPtr == Init /\ [][NextPtr]_vars

(***************************************************************************)
(* SpecUse: every operation that reserves bytes of a block or drops a      *)
(* reference to them.                                                      *)
(***************************************************************************)
NextUse ==
  \/ \E cap \in Caps : DoInplaceNew("A", cap)
  \/ DoAllocate("A", 1)
  \/ DoCreate("A", 1)
  \/ DoCreateMap("A", 1)
  \/ DoSetName("A", <<104, 105>>)
  \/ DoClearName("A")
  \/ DoPoint("A", OffName, Base("A") + SizeofRec + SizeofAllocator)
  \/ DoAppend("A", SizeofT, 1)
  \/ \E n \in {0, 1, MaxListLen} : DoResize("A", SizeofT, n)
  \/ DoClearList("A")
  \/ DoSetVec("A", MaxCount, 7)
  \/ DoClearVec("A")

SpecUse == Init /\ [][NextUse]_vars

(***************************************************************************)
(* SpecZero: Allocate on fresh buffers and on a block that held data and   *)
(* was then overwritten by Copy from a block that uses less.               *)
(***************************************************************************)
NextZero ==
  \/ \E cap \in CapsB : DoInplaceNew("A", cap)
  \/ \E cap \in CapsB \ {SizeofRec} : DoInplaceNew("B", cap)
  \/ DoSetName("A", <<104>>)
  \/ DoSetName("B", <<104, 105>>)
  \/ DoSetVec("B", MaxCount, 7)
  \/ DoCopy("B", "A")
  \/ \E b \in {"A", "B"}, count \in 1..MaxCount : DoAllocate(b, count)

SpecZero == Init /\ [][NextZero]_vars

(***************************************************************************)
(* What a reader sees of a block through the record's fields.              *)
(***************************************************************************)
Reads(m, s) ==
  [name     |-> chars(m, String_c_str(m, s + OffName)),
   length   |-> String_length(m, s + OffName),
   listSize |-> List_size(m, s + OffList),
   listAt   |-> [i \in 0..MaxListLen |-> List_index(m, s + OffList, i)],
   listIter |-> List_iterate(m, s + OffList),
   vecSize  |-> Vector_size(m, s + OffVec),
   vecAt    |-> [i \in 0..MaxCount |-> Vector_index(m, s + OffVec, i)]]

\* the position, relative to the block, of what an OffsetPtr resolves to
Rel(m, s, ptrField) ==
  IF OffsetPtr_get(m, ptrField) = NULL THEN "null" ELSE OffsetPtr_get(m, ptrField) - s

RECURSIVE NodeTargets(_, _, _)
NodeTargets(m, s, node) ==
  IF node = NULL \/ ~InMem(m, node, SizeofList) THEN <<>>
  ELSE <<Rel(m, s, node + SizeofSize), Rel(m, s, node + SizeofSize + SizeofOffset)>>
         \o NodeTargets(m, s, List_next(m, node))

\* every OffsetPtr reachable from the record: allocator, name.data, vec.at,
\* and value and next of every node of the list
Targets(m, s) ==
  <<Rel(m, s, s + SizeofSize), Rel(m, s, s + OffName),
    Rel(m, s, s + OffVec + SizeofSize)>> \o NodeTargets(m, s, s + OffList)

\* the nodes reachable from a list head through next, the head first
RECURSIVE Chain(_, _)
Chain(m, node) ==
  IF node = NULL \/ ~InMem(m, node, SizeofList) THEN <<>>
  ELSE <<node>> \o Chain(m, List_next(m, node))

(***************************************************************************)
(* C1. Relocation law: after the first used_space(B) bytes of a block B    *)
(* are copied to another base address, every OffsetPtr of the copy         *)
(* resolves to the same block-relative position as in B (null stays null)  *)
(* and every read (string, list size / index / iteration, vector index)    *)
(* returns the same result on the copy as on B.                            *)
(***************************************************************************)
C1_Relocation ==
  last.op = "Relocate" =>
    /\ Targets(mem, Base("C")) = Targets(mem, Base(last.b))
    /\ Reads(mem, Base("C")) = Reads(mem, Base(last.b))

\* a relocated block that holds a non-empty string and a list with a second node
C1_Witness ==
  /\ last.op = "Relocate"
  /\ String_length(mem, Base("C") + OffName) > 0
  /\ List_size(mem, Base("C") + OffList) >= 2
  /\ List_next(mem, Base("C") + OffList) # NULL

(***************************************************************************)
(* C2. For every block, used_space <= capacity, and when the block has an  *)
(* allocator, sizeof(Allocator) <= allocator.used_space <=                 *)
(* allocator.capacity -- also for a block created with                     *)
(* sizeof(S) < capacity < sizeof(S) + sizeof(Allocator).                   *)
(***************************************************************************)
C2_UsedWithinCapacity ==
  \A b \in Blocks :
    live[b] =>
      /\ used_space(mem, Base(b)) <= capacity(mem, Base(b))
      /\ allocator(mem, Base(b)) # NULL =>
           /\ SizeofAllocator <= Allocator_used_space(mem, allocator(mem, Base(b)))
           /\ Allocator_used_space(mem, allocator(mem, Base(b)))
                <= Allocator_capacity(mem, allocator(mem, Base(b)))

(***************************************************************************)
(* C3. Every non-null region Allocate has returned on a block lies inside  *)
(* [address(B), address(B) + B.capacity()), after the record fields and    *)
(* the allocator header, and overlaps no region returned earlier.          *)
(***************************************************************************)
C3_RegionsInsideBlock ==
  \A b \in Blocks :
    live[b] =>
      \A i \in 1..Len(regions[b]) :
        LET r == regions[b][i]
        IN  /\ Base(b) <= r.ptr
            /\ r.ptr + r.n <= Base(b) + capacity(mem, Base(b))
            /\ r.ptr >= Base(b) + struct_size(mem, Base(b)) + SizeofAllocator
            /\ \A j \in 1..(i - 1) :
                 \/ regions[b][j].ptr + regions[b][j].n <= r.ptr
                 \/ r.ptr + r.n <= regions[b][j].ptr

(***************************************************************************)
(* C4. Allocate of n > 0 bytes returns null exactly when                   *)
(* used_space + n > capacity, and then leaves used_space and capacity      *)
(* unchanged; otherwise it returns allocator address + used_space before   *)
(* the call and increases used_space by exactly n.                         *)
(***************************************************************************)
AllocateContract(m, m2, a, n, ret) ==
  /\ (ret = NULL) <=> (Allocator_used_space(m, a) + n > Allocator_capacity(m, a))
  /\ Allocator_capacity(m2, a) = Allocator_capacity(m, a)
  /\ ret = NULL => Allocator_used_space(m2, a) = Allocator_used_space(m, a)
  /\ ret # NULL =>
       /\ ret = a + Allocator_used_space(m, a)
       /\ Allocator_used_space(m2, a) = Allocator_used_space(m, a) + n

C4_AllocateContract ==
  [][(last'.op = "Allocate" /\ last'.n > 0 /\ allocator(mem, Base(last'.b)) # NULL)
       => AllocateContract(mem, mem', allocator(mem, Base(last'.b)), last'.n, last'.ptr)]_vars

(***************************************************************************)
(* C5. After appending v1, ..., vn in that order to an initially empty     *)
(* list, every append returning true, the head's size is n, L[i] is        *)
(* v(i+1) for 0 <= i < n, iteration from begin() yields v1, ..., vn, and   *)
(* L[i] with i >= size raises out-of-range.                                *)
(***************************************************************************)
C5_AppendOrder ==
  (live["A"] /\ track.pure) =>
    LET L == Base("A") + OffList
        n == Len(track.vals)
    IN  /\ List_size(mem, L) = n
        /\ \A i \in 0..(n - 1) : List_index(mem, L, i) = track.vals[i + 1]
        /\ List_iterate(mem, L) = track.vals
        /\ \A i \in n..(MaxListLen + 1) : List_index(mem, L, i) = OutOfRange

\* three successful appends whose values are not all the same
C5_Witness ==
  /\ live["A"] /\ track.pure
  /\ Len(track.vals) = 3
  /\ track.vals[1] # track.vals[2]
  /\ last.op = "append" /\ last.ok

(***************************************************************************)
(* C6. Every node N reachable from a list head through next satisfies:     *)
(* N.size == 0 iff (N.value == null and N.next == null); and if            *)
(* N.size > 0 then N.value != null and                                     *)
(* N.size == 1 + (N.next ? N.next.size : 0).                               *)
(***************************************************************************)
NodeOK(m, N) ==
  /\ (List_size(m, N) = 0) <=> (List_value(m, N) = NULL /\ List_next(m, N) = NULL)
  /\ List_size(m, N) > 0 =>
       /\ List_value(m, N) # NULL
       /\ List_size(m, N) =
            1 + (IF List_next(m, N) # NULL THEN List_size(m, List_next(m, N)) ELSE 0)

C6_NodeInvariant ==
  live["A"] =>
    \A i \in 1..Len(Chain(mem, Base("A") + OffList)) :
      NodeOK(mem, Chain(mem, Base("A") + OffList)[i])

(***************************************************************************)
(* C7. NewCopy(B) returns a block C with C.used_space() == B.used_space()  *)
(* and C.capacity() == C.used_space(): the copy is full, every later       *)
(* Allocate of a non-zero count on C returns null; and every string, list  *)
(* and vector reachable from C's record fields reads equal to the one in   *)
(* B.                                                                      *)
(***************************************************************************)
C7_NewCopy ==
  /\ last.op = "NewCopy" =>
       /\ last.ptr = Base("C")
       /\ used_space(mem, Base("C")) = used_space(mem, Base(last.b))
       /\ Reads(mem, Base("C")) = Reads(mem, Base(last.b))
  /\ live["C"] =>
       /\ capacity(mem, Base("C")) = used_space(mem, Base("C"))
       /\ \A sz \in {SizeofChar, SizeofT, SizeofList}, count \in 1..MaxCount :
            Struct_Allocate(Heap(mem), Base("C"), sz, count).r = NULL
  /\ (last.op = "Allocate" /\ last.b = "C" /\ last.n > 0) => last.ptr = NULL

\* a copy of a block that has an allocator and holds a string, a list element
\* and a vector
C7_Witness ==
  /\ last.op = "NewCopy"
  /\ allocator(mem, Base("C")) # NULL
  /\ String_length(mem, Base("C") + OffName) > 0
  /\ List_size(mem, Base("C") + OffList) > 0
  /\ Vector_size(mem, Base("C") + OffVec) > 0

(***************************************************************************)
(* C8. Whenever dst.Copy(src) returns true, dst.capacity() after the call  *)
(* equals dst.capacity() before the call, whether or not dst and src have  *)
(* an allocator.                                                           *)
(***************************************************************************)
C8_CopyKeepsCapacity ==
  [][(last'.op = "Copy" /\ last'.ok)
       => capacity(mem', Base(last'.b)) = capacity(mem, Base(last'.b))]_vars

(***************************************************************************)
(* C9. dst.Copy(src) returns false exactly when src is null or             *)
(* dst.capacity() < src.used_space(); when it returns false no byte of     *)
(* dst has changed; when it returns true, dst.used_space() ==              *)
(* src.used_space().                                                       *)
(***************************************************************************)
CopyContract(m, m2, dst, src, ok) ==
  /\ ~ok <=> (src = NULL \/ capacity(m, dst) < used_space(m, src))
  /\ ~ok => \A x \in dst..(dst + BufLen - 1) : m2[x] = m[x]
  /\ ok => used_space(m2, dst) = used_space(m, src)

C9_CopyContract ==
  [][last'.op = "Copy" => CopyContract(mem, mem', Base(last'.b), last'.n, last'.ok)]_vars

\* a Copy refused for lack of capacity, into a block that holds a string
C9_Witness ==
  /\ last.op = "Copy" /\ ~last.ok /\ last.n # NULL
  /\ String_length(mem, Base(last.b) + OffName) > 0

(***************************************************************************)
(* C10. A String whose OffsetPtr is null (never set, or cleared) compares  *)
(* equal to the literal "" (operator== true, operator!= false), compares   *)
(* equal to a String that points at a stored empty string, has length 0    *)
(* and is empty().                                                         *)
(***************************************************************************)
C10_NullStringEqualsEmpty ==
  \A b \in {"A", "B"} :
    (live[b] /\ OffsetPtr_get(mem, Base(b) + OffName) = NULL) =>
      /\ String_eq(mem, Base(b) + OffName, LitEmpty)
      /\ ~String_ne(mem, Base(b) + OffName, LitEmpty)
      /\ String_length(mem, Base(b) + OffName) = 0
      /\ String_empty(mem, Base(b) + OffName)
      /\ \A o \in {"A", "B"} :
           (/\ live[o]
            /\ OffsetPtr_get(mem, Base(o) + OffName) # NULL
            /\ String_length(mem, Base(o) + OffName) = 0)
           => String_eqString(mem, Base(b) + OffName, Base(o) + OffName)

(***************************************************************************)
(* C11. List::resize(B, n) with n > size() returns false whenever an       *)
(* allocation needed for the n - size() new elements fails: whenever such  *)
(* a resize returns true, the list's size() afterwards equals n -- for an  *)
(* initially empty list and for a non-empty one.                           *)
(***************************************************************************)
C11_ResizeTrueMeansGrown ==
  [][(/\ last'.op = "resize"
      /\ last'.n > List_size(mem, Base(last'.b) + OffList)
      /\ last'.ok)
       => List_size(mem', Base(last'.b) + OffList) = last'.n]_vars

(***************************************************************************)
(* C12. HasMember(field) is true iff the byte offset of the field from the *)
(* block's base is strictly less than struct_size.  For a block            *)
(* constructed as Rec and read through RecV2, HasMember is true for every  *)
(* field of Rec and false for every field RecV2 adds; the same holds for a *)
(* NewCopy of the block and for a destination block after a successful     *)
(* Copy from it.                                                           *)
(***************************************************************************)
FieldsV1 == {OffName, OffList, OffVec}
FieldsV2 == {OffExtra, OffMore}

OldBlob(m, s) ==
  /\ \A f \in FieldsV1 : HasMember(m, s, s + f)
  /\ \A f \in FieldsV2 : ~HasMember(m, s, s + f)

C12_HasMember ==
  /\ \A b \in Blocks :
       live[b] => \A f \in FieldsV1 \cup FieldsV2 :
                    HasMember(mem, Base(b), Base(b) + f) <=> f < struct_size(mem, Base(b))
  /\ live["A"] => OldBlob(mem, Base("A"))
  /\ last.op \in {"NewCopy", "NewCopyV2"} => OldBlob(mem, Base("C"))
  /\ (last.op = "Copy" /\ last.ok) => OldBlob(mem, Base(last.b))

\* a block constructed as RecV2, with an allocator, that has taken a Copy of a
\* Rec block holding a string
C12_Witness ==
  /\ last.op = "Copy" /\ last.ok /\ last.b = "B"
  /\ allocator(mem, Base("B")) # NULL
  /\ String_length(mem, Base("B") + OffName) > 0

(***************************************************************************)
(* C13. For OffsetPtrs a and b stored at different addresses of one block, *)
(* after the copy-assignment a = b, a.get() == b.get(): a is null iff b is *)
(* null, and otherwise a's raw offset is (target - address of a), not b's  *)
(* raw offset.  For every non-null OffsetPtr R, get() is address(R) +      *)
(* raw_offset(R), and assigning a pointer p != address(R) then reading     *)
(* returns p.                                                              *)
(* C13_CopyAssign states it as the claim does; C13_CopyAssignElsewhere     *)
(* states the copy law only where b's target is not the storage of a, and  *)
(* adds that a is null after a = b where it is.                            *)
(***************************************************************************)
CopyLaw(m, a, b) ==
  /\ OffsetPtr_get(m, a) = OffsetPtr_get(m, b)
  /\ (OffsetPtr_get(m, a) = NULL) <=> (OffsetPtr_get(m, b) = NULL)
  /\ OffsetPtr_get(m, a) # NULL =>
       /\ RdS32(m, a) = OffsetPtr_get(m, b) - a
       /\ RdS32(m, a) # RdS32(m, b)

PtrLaw(m, s) ==
  /\ \A f \in PtrFields :
       RdS32(m, s + f) # 0 => OffsetPtr_get(m, s + f) = s + f + RdS32(m, s + f)
  /\ (last.op = "ptr_assign" /\ last.ptr # s + last.n) =>
       OffsetPtr_get(m, s + last.n) = last.ptr

C13_CopyAssign ==
  live["A"] =>
    /\ PtrLaw(mem, Base("A"))
    /\ last.op = "ptr_copy" => CopyLaw(mem, Base("A") + last.n, last.ptr)

C13_CopyAssignElsewhere ==
  live["A"] =>
    /\ PtrLaw(mem, Base("A"))
    /\ last.op = "ptr_copy" =>
         IF OffsetPtr_get(mem, last.ptr) # Base("A") + last.n
         THEN CopyLaw(mem, Base("A") + last.n, last.ptr)
         ELSE OffsetPtr_get(mem, Base("A") + last.n) = NULL

\* a copy-assignment from a non-null OffsetPtr whose target lies before both
C13_Witness ==
  /\ last.op = "ptr_copy"
  /\ OffsetPtr_get(mem, last.ptr) = Base("A")
  /\ OffsetPtr_get(mem, Base("A") + last.n) = Base("A")

(***************************************************************************)
(* C14. For every list L of size n >= 0, a successful append of one        *)
(* element followed by resize(B, n) returns true and leaves L equal to the *)
(* original list: size() == n and the same n element values in the same    *)
(* order, by indexed access and by iteration.                              *)
(***************************************************************************)
\* the list at L in m2 has size n and the first n element values of the list
\* at L in m
SameElements(m2, m, L, n) ==
  /\ List_size(m2, L) = n
  /\ \A i \in 0..(n - 1) : List_index(m2, L, i) = List_index(m, L, i)
  /\ List_iterate(m2, L) = [i \in 1..n |-> List_index(m, L, i - 1)]

C14_AppendThenTruncate ==
  [][last'.op = "append_resize" =>
       /\ last'.ok
       /\ last'.n = List_size(mem, Base(last'.b) + OffList)
       /\ SameElements(mem', mem, Base(last'.b) + OffList, last'.n)]_vars

\* a list of two elements that took a third and was truncated back to two
C14_Witness ==
  /\ last.op = "append_resize" /\ last.ok /\ last.n = 2
  /\ List_size(mem, Base("A") + OffList) = 2
  /\ Len(regions["A"]) >= 5

(***************************************************************************)
(* C15. No reclamation: across Allocate, Create*, List::append,            *)
(* List::resize (to a larger, equal or smaller size), List::clear,         *)
(* Vector::clear, String::clear and OffsetPtr reassignment on a block,     *)
(* used_space() never decreases and capacity() never changes; clear and a  *)
(* shrinking resize leave used_space() exactly unchanged.                  *)
(***************************************************************************)
Releases(r, m) ==
  \/ r.op \in {"List_clear", "Vector_clear", "String_clear", "ptr_assign"}
  \/ r.op = "resize" /\ r.n <= List_size(m, Base(r.b) + OffList)

C15_NoReclamation ==
  [][\A b \in Blocks :
       (live[b] /\ live'[b]) =>
         /\ used_space(mem', Base(b)) >= used_space(mem, Base(b))
         /\ capacity(mem', Base(b)) = capacity(mem, Base(b))
         /\ (last'.b = b /\ Releases(last', mem)) =>
              used_space(mem', Base(b)) = used_space(mem, Base(b))]_vars

\* a list of at least two elements truncated to one, the bytes of the others
\* still counted as used
C15_Witness ==
  /\ last.op = "resize" /\ last.n = 1 /\ last.ok
  /\ List_size(mem, Base("A") + OffList) = 1
  /\ used_space(mem, Base("A")) >= SizeofRec + SizeofAllocator + 2 * SizeofT + SizeofList
  /\ used_space(mem, Base("A")) <= capacity(mem, Base("A"))

(***************************************************************************)
(* C16. When List::resize(B, n) with n > size() hits an allocation failure *)
(* while creating the new elements (CreateList returns a descriptor of     *)
(* size 0), the operation is a no-op on the list: size(), every element    *)
(* value, the head's value and next references and the nodes reachable     *)
(* from the head through next are the same as before the call.             *)
(***************************************************************************)
ListShape(m, L) ==
  [size  |-> List_size(m, L),
   at    |-> [i \in 0..MaxListLen |-> List_index(m, L, i)],
   value |-> List_value(m, L),
   next  |-> List_next(m, L),
   chain |-> Chain(m, L)]

\* the resize about to be called with new_size on the list of block b grows
\* the list and its CreateList fails
GrowthFails(m, b, sizeofT, new_size) ==
  /\ new_size > List_size(m, Base(b) + OffList)
  /\ CreateList(Heap(m), Base(b), sizeofT,
                new_size - List_size(m, Base(b) + OffList)).r.size = 0

C16_FailedGrowthIsNoOp ==
  [][(last'.op = "resize" /\ GrowthFails(mem, last'.b, SizeofT, last'.n))
       => ListShape(mem', Base(last'.b) + OffList)
            = ListShape(mem, Base(last'.b) + OffList)]_vars

(***************************************************************************)
(* C17. After any sequence of append, resize and clear on a list, calls in *)
(* which an allocation fails included, a list whose head size is n > 0 is  *)
(* a chain of exactly n nodes: following next from the head reaches a node *)
(* with next == null after exactly n - 1 hops, so iteration visits exactly *)
(* size() elements and never dereferences a node whose value is null.      *)
(***************************************************************************)
C17_ChainOfSizeNodes ==
  (live["A"] /\ List_size(mem, Base("A") + OffList) > 0) =>
    LET L == Base("A") + OffList
    IN  /\ Len(Chain(mem, L)) = List_size(mem, L)
        /\ Len(List_iterate(mem, L)) = List_size(mem, L)
        /\ \A i \in 1..Len(Chain(mem, L)) : List_value(mem, Chain(mem, L)[i]) # NULL

(***************************************************************************)
(* C18. Every non-null region returned by Allocate consists entirely of    *)
(* zero bytes at the moment it is returned, also in a destination block    *)
(* that had earlier allocations written with non-zero data and was then    *)
(* overwritten by a successful Copy from a source with smaller used_space. *)
(***************************************************************************)
C18_AllocateZeroes ==
  (last.op = "Allocate" /\ last.ptr # NULL) =>
    \A x \in last.ptr..(last.ptr + last.n - 1) : mem[x] = 0

\* Allocate on B returns the bytes where B's string "hi" was stored: a Copy
\* from a block that uses less came between
C18_Witness ==
  /\ last.op = "Allocate" /\ last.b = "B" /\ last.ptr # NULL
  /\ \E i \in 1..(Len(regions["B"]) - 1) :
       /\ regions["B"][i].ptr = last.ptr
       /\ regions["B"][i].n = Len(<<104, 105>>) + 1

(***************************************************************************)
(* C19. Whenever List::append (of a single value or of a content           *)
(* descriptor, which is how resize grows a list) or List::resize returns   *)
(* false, the list is observably unchanged: the size field of every node   *)
(* reachable from the head, every element value and the chain of reachable *)
(* nodes are the same as before the call; and a failed single-value append *)
(* also leaves used_space() unchanged.                                     *)
(***************************************************************************)
ListNodes(m, L) ==
  [chain  |-> Chain(m, L),
   sizes  |-> [i \in 1..Len(Chain(m, L)) |-> List_size(m, Chain(m, L)[i])],
   values |-> [i \in 1..Len(Chain(m, L)) |-> Deref32(m, List_value(m, Chain(m, L)[i]))],
   at     |-> [i \in 0..MaxListLen |-> List_index(m, L, i)]]

\* the memory when append is entered: the caller has allocated the value
BeforeAppend(m, b, sizeofT) == Struct_Allocate(Heap(m), Base(b), sizeofT, 1).h.mem

FailedCallKeepsList(sizeofT) ==
  (last'.op \in {"append", "resize"} /\ ~last'.ok) =>
    /\ ListNodes(mem', Base(last'.b) + OffList) = ListNodes(mem, Base(last'.b) + OffList)
    /\ last'.op = "append" =>
         used_space(mem', Base(last'.b))
           = used_space(BeforeAppend(mem, last'.b, sizeofT), Base(last'.b))

C19_FailedCallKeepsList == [][FailedCallKeepsList(SizeofWide)]_vars

\* an append that had its value allocated and failed for want of a node, on a
\* list that holds an element
C19_Witness ==
  /\ last.op = "append" /\ ~last.ok /\ last.ptr # NULL
  /\ List_size(mem, Base("A") + OffList) > 0
  /\ used_space(mem, Base("A")) <= capacity(mem, Base("A"))

====
